---- MODULE Spec2Model ----
(***************************************************************************)
(* Model of polymetis/src/clients/empty_statistics_client.cpp: the         *)
(* constructor of TestGrpcClient (start-up, the timed dispatch loop, the   *)
(* circular sample buffer, the per-window statistics and the running       *)
(* global statistics) and TestGrpcClient::SendCommand.                     *)
(*                                                                         *)
(* Time is counted in ticks, TicksPerMs ticks to the millisecond (the      *)
(* source counts nanoseconds, 1000000 to the millisecond).  A float is a   *)
(* non-negative whole number of ticks with at most FloatPrecision          *)
(* significant bits (binary32 has 24); every float operation rounds its    *)
(* exact result to the nearest such value, ties to even.  The assert()s    *)
(* of the source are modelled as compiled in: a failed assert aborts.      *)
(***************************************************************************)
EXTENDS Integers, Sequences, FiniteSets, TLC

\* ------------------------------------------------------------------ bounds
\* Largest num_requests read from the configuration.
MaxRequests == 7
\* Largest num_requests of the runs checked for termination.
LiveRequests == 4
\* Significant bits of a float (24 in the source's binary32).
FloatPrecision == 5
\* int log_iters = 3000, scaled down.
log_iters == 3
\* 1 ms in clock ticks (the divisor 1000000.0 of line 84, scaled down).
TicksPerMs == 20

\* Round-trip durations of one ControlUpdate call, in ticks:
\* 0.1 ms, exactly 1.0 ms, 1.5 ms.
Durations == {2, TicksPerMs, 30}
\* Round trips of a server that stalls: 1.5 ms, or 100000 ms (the call has
\* no timeout).
SlowDurations == {30, 100000 * TicksPerMs}
\* What a read of a never-written slot of times_taken may yield.
GarbageFloats == {0, 30}

\* ------------------------------------------------------- float arithmetic
RECURSIVE Pow2(_)
Pow2(n) == IF n = 0 THEN 1 ELSE 2 * Pow2(n - 1)

\* Nearest integer to a/b (a >= 0, b > 0), ties to even.
RoundQuot(a, b) ==
    LET q == a \div b
        r == a % b
    IN  IF 2 * r < b THEN q
        ELSE IF 2 * r > b THEN q + 1
        ELSE IF q % 2 = 0 THEN q ELSE q + 1

\* The unit in the last place of the float nearest a/b: the least power of
\* two q with a/b < q * 2^FloatPrecision.
RECURSIVE FUlp(_, _, _)
FUlp(a, b, q) ==
    IF a < b * q * Pow2(FloatPrecision) THEN q ELSE FUlp(a, b, 2 * q)

\* float division a / b, correctly rounded.  The operands are bound to
\* values first, so that each is evaluated once.
FDiv(a, b) ==
    CHOOSE r \in {RoundQuot(x, y * FUlp(x, y, 1)) * FUlp(x, y, 1) :
                     x \in {a}, y \in {b}} : TRUE
\* conversion of an exact value to float.
FRound(x) == FDiv(x, 1)
FAdd(x, y) == FRound(x + y)
FMul(x, y) == FRound(x * y)

\* ------------------------------------------------------ program constants
GlobalMaxInit == -(99999 * TicksPerMs)
GlobalMinInit == 99999 * TicksPerMs
WarnThreshold == 1 * TicksPerMs
Period == 1 * TicksPerMs

\* ------------------------------------------------------------ shared memory
VectorFields == {"joint_positions", "joint_velocities",
                 "joint_torques_measured", "joint_torques_external"}
ShmFields == {"shm_timestamp"} \cup VectorFields
\* Timestamp the producer left in the region before the client started.
ProducerStamp == -1
\* The region as an external producer populated it: live, non-zero state.
ProducerField(f, dofs) ==
    IF f = "shm_timestamp" THEN ProducerStamp ELSE [j \in 1..dofs |-> j]
ProducerRegion(present, dofs) == [f \in present |-> ProducerField(f, dofs)]

\* A default-constructed RobotState message: no timestamp, empty vectors.
EmptyRobotState ==
    [timestamp |-> 0, joint_positions |-> <<>>, joint_velocities |-> <<>>,
     joint_torques_measured |-> <<>>, joint_torques_external |-> <<>>]

\* ------------------------------------------------- vector<float> helpers
RECURSIVE MaxElement(_)
MaxElement(v) ==
    IF Len(v) = 1 THEN v[1]
    ELSE LET m == MaxElement(SubSeq(v, 1, Len(v) - 1))
         IN  IF v[Len(v)] > m THEN v[Len(v)] ELSE m

RECURSIVE MinElement(_)
MinElement(v) ==
    IF Len(v) = 1 THEN v[1]
    ELSE LET m == MinElement(SubSeq(v, 1, Len(v) - 1))
         IN  IF v[Len(v)] < m THEN v[Len(v)] ELSE m

\* times_taken[j] (j counted from 0); a slot past size() was never written.
ReadSlot(v, j, garbage) == IF j + 1 <= Len(v) THEN v[j + 1] ELSE garbage

\* sum after the loop "for (j = 0; j < n; j++) sum += times_taken[j]".
RECURSIVE SumSlots(_, _, _)
SumSlots(v, n, garbage) ==
    IF n = 0 THEN 0
    ELSE FAdd(SumSlots(v, n - 1, garbage), ReadSlot(v, n - 1, garbage))

\* ------------------------------------------------------------------ state
VARIABLES
    num_requests,   \* config["num_requests"]
    num_dofs,       \* config["num_dofs"]
    metadata_file,  \* the file at robot_client_metadata_path
    region_exists,  \* a segment named RobotStateSharedMemory exists
    region,         \* its named objects, owned by the producer
    latencies,      \* the round-trip durations the server may take
    pc,             \* where the constructor is
    i,              \* the loop counter
    now,            \* the clock
    start,          \* auto start
    ms_taken,       \* float ms_taken
    times_taken,    \* std::vector<float> times_taken
    global_max, global_min, global_avg,
    copies,         \* SendCommand's locals timestamp, joint_positions, ...
    sent,           \* the RobotState handed to the last ControlUpdate
    init_calls,     \* InitRobotClient round trips issued
    update_calls,   \* ControlUpdate round trips issued
    failed_at,      \* iteration whose ControlUpdate was not ok, or -1
    abort_cause,    \* why the process died, or "none"
    recorded,       \* every sample stored in times_taken, by iteration
    slot_iter,      \* the iteration that last wrote each slot of times_taken
    warnings,       \* the warning lines printed
    reports         \* the window lines printed

vars == <<num_requests, num_dofs, metadata_file, region_exists, region,
          latencies, pc,
          i, now, start, ms_taken, times_taken, global_max, global_min,
          global_avg, copies, sent, init_calls, update_calls, failed_at,
          abort_cause, recorded, slot_iter, warnings, reports>>

config == <<num_requests, num_dofs, metadata_file, region_exists, region,
            latencies>>
stats == <<global_max, global_min, global_avg>>
buffer == <<times_taken, slot_iter, recorded>>
rpcs == <<init_calls, update_calls, failed_at, sent>>

NoCopies == [f \in {} |-> 0]

\* The sets of named objects a region may lack.
MissingChoices == {{}, {"joint_velocities"}}

InitWith(durations) ==
    /\ latencies = durations
    /\ num_requests \in -1..MaxRequests
    /\ num_dofs \in {1, 2}
    /\ metadata_file \in {"missing", "garbled", "valid"}
    /\ region_exists \in BOOLEAN
    /\ \E missing \in MissingChoices :
          region = IF region_exists
                   THEN ProducerRegion(ShmFields \ missing, num_dofs)
                   ELSE ProducerRegion({}, num_dofs)
    /\ pc = "open_file"
    /\ i = 0
    /\ now = 0
    /\ start = 0
    /\ ms_taken = 0
    /\ times_taken = <<>>
    /\ global_max = GlobalMaxInit
    /\ global_min = GlobalMinInit
    /\ global_avg = 0
    /\ copies = NoCopies
    /\ sent = EmptyRobotState
    /\ init_calls = 0
    /\ update_calls = 0
    /\ failed_at = -1
    /\ abort_cause = "none"
    /\ recorded = <<>>
    /\ slot_iter = <<>>
    /\ warnings = <<>>
    /\ reports = <<>>

Init == InitWith(Durations)

\* A failed assert, an uncaught exception or a fatal signal.
Abort(cause) ==
    /\ pc' = "aborted"
    /\ abort_cause' = cause

\* ----------------------------------------------------------------- start-up
\* std::ifstream file(path); assert(file);
OpenFile ==
    /\ pc = "open_file"
    /\ IF metadata_file = "missing"
       THEN Abort("metadata_file")
       ELSE pc' = "parse_metadata" /\ UNCHANGED abort_cause
    /\ UNCHANGED <<config, i, now, start, ms_taken, stats, copies, rpcs,
                   buffer, warnings, reports>>

\* Mutant of ParseSucceeds: the result of ParseFromString is not checked.
ParseUnchecked(file) == TRUE

\* metadata.ParseFromString(buffer.str())
ParseSucceeds(file) == file # "garbled"

\* assert(metadata.ParseFromString(buffer.str()));
ParseMetadata ==
    /\ pc = "parse_metadata"
    /\ IF ParseSucceeds(metadata_file)
       THEN pc' = "init_client" /\ UNCHANGED abort_cause
       ELSE Abort("metadata_parse")
    /\ UNCHANGED <<config, i, now, start, ms_taken, stats, copies, rpcs,
                   buffer, warnings, reports>>

\* Status status = stub_->InitRobotClient(...); assert(status.ok());
InitRobotClient ==
    /\ pc = "init_client"
    /\ init_calls' = init_calls + 1
    /\ \E ok \in BOOLEAN :
          IF ok THEN pc' = "open_shm" /\ UNCHANGED abort_cause
                ELSE Abort("init_rpc")
    /\ UNCHANGED <<config, i, now, start, ms_taken, stats, copies,
                   update_calls, failed_at, sent, buffer, warnings, reports>>

\* segment_ = managed_shared_memory(open_only, "RobotStateSharedMemory");
\* open_only throws interprocess_exception when no such segment exists.
OpenSharedMemory ==
    /\ pc = "open_shm"
    /\ IF region_exists
       THEN pc' = "loop_test" /\ UNCHANGED abort_cause
       ELSE Abort("shm_open")
    /\ UNCHANGED <<config, i, now, start, ms_taken, stats, copies, rpcs,
                   buffer, warnings, reports>>

\* ----------------------------------------------------------- loop decisions
\* Mutant of LoopContinues: the bound is inclusive, one round too many.
LoopRunsOneMore(iter, n) == iter <= n

\* for (...; i < num_requests; ...)
LoopContinues(iter, n) == iter < n

\* Mutant of SlotOf: the index does not advance.
SlotStuckAtZero(iter) == 0

\* the slot i % log_iters of times_taken
SlotOf(iter) == iter % log_iters

\* Mutant of RecordSample: the buffer never wraps, every sample is appended.
RecordAlwaysAppends(v, iter, ms) == Append(v, ms)

\* if (i % log_iters >= times_taken.size()) push_back(ms) else at(...) = ms
RecordSample(v, iter, ms) ==
    IF SlotOf(iter) >= Len(v)
    THEN Append(v, ms)
    ELSE [v EXCEPT ![SlotOf(iter) + 1] = ms]

\* Mutant of ExceedsThreshold: a sample of exactly 1.0 ms warns too.
AtOrAboveThreshold(ms) == ms >= WarnThreshold

\* if (ms_taken > 1.0)
ExceedsThreshold(ms) == ms > WarnThreshold

\* Mutant of WindowCloses: the guard skips the first boundary, i = log_iters.
WindowClosesAfterFirst(iter) == iter > log_iters /\ iter % log_iters = 0

\* Mutant of WindowCloses: the boundary is tested one iteration late.
WindowClosesOneLate(iter) == iter > 1 /\ (iter - 1) % log_iters = 0

\* if (i > 0 && i % log_iters == 0)
WindowCloses(iter) == iter > 0 /\ iter % log_iters = 0

\* float avg_time_taken = sum / log_iters;
WindowAvg(v, garbage) == FDiv(SumSlots(v, log_iters, garbage), log_iters)

\* Mutant of CombineMax: the window max is stored unconditionally.
CombineMaxOverwrites(gmax, wmax) == wmax

\* if (max_time_taken > global_max) global_max = max_time_taken;
CombineMax(gmax, wmax) == IF wmax > gmax THEN wmax ELSE gmax

\* if (min_time_taken < global_min) global_min = min_time_taken;
CombineMin(gmin, wmin) == IF wmin < gmin THEN wmin ELSE gmin

\* Mutant of NumLogsSoFar: the count is one too high.
NumLogsOneTooMany(iter) == iter \div log_iters + 1

\* int num_logs_so_far = i / log_iters;
NumLogsSoFar(iter) == iter \div log_iters

\* Mutant of CombineAvg: the old mean is weighted by n instead of n - 1.
CombineAvgWeightsByN(n, gavg, wavg) == FDiv(FAdd(FMul(n, gavg), wavg), n)

\* ((num_logs_so_far - 1) * global_avg + avg_time_taken) / (float)n
CombineAvg(n, gavg, wavg) == FDiv(FAdd(FMul(n - 1, gavg), wavg), n)

\* Mutant of SendCommandResult: the status is ignored.
SendCommandIgnoresStatus(ok) == TRUE

\* SendCommand's return value for the status of ControlUpdate.
SendCommandResult(ok) == ok

\* ------------------------------------------------------------------ the loop
\* i < num_requests; auto start = high_resolution_clock::now();
LoopTest ==
    /\ pc = "loop_test"
    /\ IF LoopContinues(i, num_requests)
       THEN pc' = "send_command" /\ start' = now
       ELSE pc' = "done" /\ UNCHANGED start
    /\ UNCHANGED <<config, i, now, ms_taken, stats, copies, rpcs, buffer,
                   abort_cause, warnings, reports>>

\* SendCommand's locals once lines 133-150 have run: "auto x = *find(..)"
\* copies each named object, and the stamp and the zeros go to the copies.
FilledCopies(t) ==
    [f \in ShmFields |->
        IF f = "shm_timestamp" THEN t ELSE [j \in 1..num_dofs |-> 0]]

\* assert(SendCommand(num_dofs)), every named object found.
SendCommand ==
    /\ pc = "send_command"
    /\ ShmFields \subseteq DOMAIN region
    /\ copies' = FilledCopies(now)
    /\ sent' = EmptyRobotState
    /\ update_calls' = update_calls + 1
    /\ \E d \in latencies, ok \in BOOLEAN :
          /\ now' = now + d
          /\ IF SendCommandResult(ok)
             THEN pc' = "measure" /\ UNCHANGED abort_cause
             ELSE Abort("control_update")
          /\ failed_at' = IF ok THEN failed_at ELSE i
    /\ UNCHANGED <<config, i, start, ms_taken, stats, init_calls, buffer,
                   warnings, reports>>

\* SendCommand when find() returns a null pointer for some name: line 133-142
\* dereferences it.  The behaviour is undefined: the process dies on the
\* spot, or carries on with an indeterminate copy.
SendCommandNullField ==
    /\ pc = "send_command"
    /\ ~(ShmFields \subseteq DOMAIN region)
    /\ \/ /\ Abort("null_dereference")
          /\ UNCHANGED <<now, copies, rpcs>>
       \/ /\ copies' = FilledCopies(now)
          /\ sent' = EmptyRobotState
          /\ update_calls' = update_calls + 1
          /\ \E d \in latencies, ok \in BOOLEAN :
                /\ now' = now + d
                /\ IF SendCommandResult(ok)
                   THEN pc' = "measure" /\ UNCHANGED abort_cause
                   ELSE Abort("control_update")
                /\ failed_at' = IF ok THEN failed_at ELSE i
          /\ UNCHANGED init_calls
    /\ UNCHANGED <<config, i, start, ms_taken, stats, buffer, warnings,
                   reports>>

\* auto end = now(); float ms_taken = (float)ns(end - start) / 1000000.0;
Measure ==
    /\ pc = "measure"
    /\ ms_taken' = FRound(now - start)
    /\ pc' = "record"
    /\ UNCHANGED <<config, i, now, start, stats, copies, rpcs, buffer,
                   abort_cause, warnings, reports>>

\* lines 85-89
Record ==
    /\ pc = "record"
    /\ times_taken' = RecordSample(times_taken, i, ms_taken)
    /\ slot_iter' = RecordSample(slot_iter, i, i)
    /\ recorded' = Append(recorded, ms_taken)
    /\ pc' = "warn"
    /\ UNCHANGED <<config, i, now, start, ms_taken, stats, copies, rpcs,
                   abort_cause, warnings, reports>>

\* lines 90-93
Warn ==
    /\ pc = "warn"
    /\ warnings' = IF ExceedsThreshold(ms_taken)
                   THEN Append(warnings, [i |-> i, ms |-> ms_taken])
                   ELSE warnings
    /\ pc' = "window"
    /\ UNCHANGED <<config, i, now, start, ms_taken, stats, copies, rpcs,
                   buffer, abort_cause, reports>>

\* lines 95-121
LogWindow ==
    /\ pc = "window"
    /\ IF WindowCloses(i)
       THEN \E garbage \in GarbageFloats :
              LET max_time_taken == MaxElement(times_taken)
                  min_time_taken == MinElement(times_taken)
                  avg_time_taken == WindowAvg(times_taken, garbage)
                  num_logs_so_far == NumLogsSoFar(i)
                  new_max == CombineMax(global_max, max_time_taken)
                  new_min == CombineMin(global_min, min_time_taken)
                  new_avg == CombineAvg(num_logs_so_far, global_avg,
                                        avg_time_taken)
              IN  /\ global_max' = new_max
                  /\ global_min' = new_min
                  /\ global_avg' = new_avg
                  /\ reports' = Append(reports,
                        [i |-> i,
                         max |-> max_time_taken,
                         min |-> min_time_taken,
                         avg |-> avg_time_taken,
                         num_logs_so_far |-> num_logs_so_far,
                         size |-> Len(times_taken),
                         iters |-> {slot_iter[j] : j \in 1..Len(slot_iter)},
                         prev_avg |-> global_avg,
                         global_max |-> new_max,
                         global_min |-> new_min,
                         global_avg |-> new_avg])
       ELSE UNCHANGED <<stats, reports>>
    /\ pc' = "sleep"
    /\ UNCHANGED <<config, i, now, start, ms_taken, copies, rpcs, buffer,
                   abort_cause, warnings>>

\* Mutant of WakeTime: sleep_for(1ms) instead of sleep_until(start + 1ms).
WakeAfterPeriod(t, s) == t + Period

\* The time at which sleep_until(s + 1ms), called at time t, returns: the
\* deadline, or at once when the deadline has passed.
WakeTime(t, s) == IF t < s + Period THEN s + Period ELSE t

\* std::this_thread::sleep_until(start + 1ms); i++
SleepUntil ==
    /\ pc = "sleep"
    /\ now' = WakeTime(now, start)
    /\ i' = i + 1
    /\ pc' = "loop_test"
    /\ UNCHANGED <<config, start, ms_taken, stats, copies, rpcs, buffer,
                   abort_cause, warnings, reports>>

Next ==
    \/ OpenFile
    \/ ParseMetadata
    \/ InitRobotClient
    \/ OpenSharedMemory
    \/ LoopTest
    \/ SendCommand
    \/ SendCommandNullField
    \/ Measure
    \/ Record
    \/ Warn
    \/ LogWindow
    \/ SleepUntil

Spec == Init /\ [][Next]_vars

\* The same program on the shorter runs termination is checked for.
FairInit == Init /\ num_requests <= LiveRequests
\* The constructor runs on a thread of its own: while it has a next step
\* (every RPC and every sleep returns) it eventually takes it.
FairSpec == FairInit /\ [][Next]_vars /\ WF_vars(Next)

\* The same program against a server whose round trips can take 100 s.
SlowInit == InitWith(SlowDurations)
SlowSpec == SlowInit /\ [][Next]_vars

\* =================================================================== claims
\* Iterations whose window step (lines 95-121) has run.
WindowStepDone == {j \in 0..(MaxRequests + 1) : j < i \/ (j = i /\ pc = "sleep")}
\* Iterations at which a window line was printed.
ReportIters == {reports[k].i : k \in 1..Len(reports)}

\* C1: while every RPC succeeds, a window is closed and reported at
\* iteration j exactly when j > 0 and j mod N = 0, once each; so a run of
\* num_requests >= 1 rounds that completes has printed
\* floor((num_requests - 1) / N) window reports (none for N rounds, one for
\* N + 1 rounds).
C1_ReportsAtPositiveMultiples ==
    /\ \A j \in WindowStepDone :
          (j \in ReportIters) <=> (j > 0 /\ j % log_iters = 0)
    /\ ReportIters \subseteq WindowStepDone
    /\ Cardinality(ReportIters) = Len(reports)
    /\ pc = "done" =>
          Len(reports) = IF num_requests >= 1
                         THEN (num_requests - 1) \div log_iters
                         ELSE 0

\* A completed run of 2N + 1 rounds printed two window reports.
C1_Witness ==
    /\ pc = "done"
    /\ num_requests = 2 * log_iters + 1
    /\ Len(reports) = 2

\* The global statistics as the last window line left them.
StatsAfterLastReport ==
    IF reports = <<>>
    THEN <<GlobalMaxInit, GlobalMinInit, 0>>
    ELSE <<reports[Len(reports)].global_max,
           reports[Len(reports)].global_min,
           reports[Len(reports)].global_avg>>

\* C2: once the ControlUpdate of iteration k has returned non-success the
\* run is aborted and stays so: that call is the last RPC issued (k + 1
\* ControlUpdate calls in all), only the samples of iterations 0..k-1 are
\* recorded, no warning and no window report belongs to an iteration >= k,
\* and the global statistics are those of the last window closed before k.
C2_RpcFailureAbortsRun ==
    failed_at # -1 =>
        /\ pc = "aborted"
        /\ abort_cause = "control_update"
        /\ i = failed_at
        /\ update_calls = failed_at + 1
        /\ Len(recorded) = failed_at
        /\ \A k \in 1..Len(warnings) : warnings[k].i < failed_at
        /\ \A k \in 1..Len(reports) : reports[k].i < failed_at
        /\ stats = StatsAfterLastReport

\* The ControlUpdate of iteration 5 failed after the window of iteration 3
\* was reported.
C2_Witness ==
    /\ failed_at = 5
    /\ pc = "aborted"
    /\ Len(reports) = 1
    /\ Len(recorded) = 5

\* C3: when the shared-memory segment, or a named object of it, is missing
\* the process aborts before any RPC (InitRobotClient or ControlUpdate) has
\* been issued.
C3_NoRpcBeforeSharedMemoryAbort ==
    (pc = "aborted" /\ abort_cause \in {"shm_open", "null_dereference"})
        => init_calls + update_calls = 0

\* C4: after SendCommand's shared-memory step the region itself holds this
\* iteration's timestamp and zeros in entries 0..num_dofs-1 of its four
\* vectors.
C4_RegionMutatedInPlace ==
    (pc = "measure" /\ ShmFields \subseteq DOMAIN region) =>
        /\ region["shm_timestamp"] >= start
        /\ \A f \in VectorFields : \A j \in 1..num_dofs : region[f][j] = 0

\* min(a, b)
Min(a, b) == IF a < b THEN a ELSE b

\* C5: every window line is computed over written slots only (size() is N
\* when max_element, min_element and the sum loop read the buffer), over at
\* least min(i + 1, N) samples, and those are the samples of iterations
\* i-N+1 .. i.
C5_WindowOverRecordedSamples ==
    \A k \in 1..Len(reports) :
        /\ reports[k].size = log_iters
        /\ Cardinality(reports[k].iters) >= Min(reports[k].i + 1, log_iters)
        /\ reports[k].iters = (reports[k].i - log_iters + 1)..reports[k].i

\* The second window, computed after the buffer wrapped, holds the samples
\* of iterations N+1 .. 2N.
C5_Witness ==
    /\ Len(reports) = 2
    /\ reports[2].iters = (log_iters + 1)..(2 * log_iters)
    /\ Len(recorded) = 2 * log_iters + 1

\* C6: the windows partition the recorded samples: every sample recorded at
\* an iteration j up to the last closure is aggregated into exactly one
\* window report, whose max is >= the sample and whose min is <= it.
C6_WindowsCoverSamples ==
    reports # <<>> =>
        \A j \in 0..reports[Len(reports)].i :
            /\ Cardinality({k \in 1..Len(reports) : j \in reports[k].iters}) = 1
            /\ \A k \in 1..Len(reports) :
                  j \in reports[k].iters =>
                      /\ reports[k].max >= recorded[j + 1]
                      /\ reports[k].min <= recorded[j + 1]

\* Iterations whose threshold check (lines 90-93) has run.
WarnStepDone ==
    {j \in 0..(MaxRequests + 1) :
        j < Len(recorded) /\ (j < i \/ pc \in {"window", "sleep"})}
\* Iterations for which a warning line was printed.
WarnedIters == {warnings[k].i : k \in 1..Len(warnings)}

\* C7 (state part): a warning was printed for an iteration exactly when its
\* sample is strictly greater than 1.0 ms, once, so the number of warnings
\* is the number of such samples.
C7_WarningsMatchSlowSamples ==
    /\ \A j \in WarnStepDone :
          (j \in WarnedIters) <=> (recorded[j + 1] > WarnThreshold)
    /\ WarnedIters \subseteq WarnStepDone
    /\ Cardinality(WarnedIters) = Len(warnings)
    /\ \A k \in 1..Len(warnings) : warnings[k].ms = recorded[warnings[k].i + 1]

\* C7 (frame part): the threshold check changes neither the sample buffer,
\* the global statistics nor the loop counter, and the window check follows
\* it whether or not a warning was printed.
C7_WarnIsObservational ==
    pc = "warn" =>
        /\ UNCHANGED <<times_taken, global_max, global_min, global_avg, i>>
        /\ pc' = "window"

\* C7: warnings are printed exactly for the samples > 1.0 ms and printing
\* one has no effect on the buffer, the statistics, the counter or the
\* control flow.
C7_WarningIffAboveThreshold ==
    /\ []C7_WarningsMatchSlowSamples
    /\ [][C7_WarnIsObservational]_vars

\* One warning in a run whose samples include one at exactly 1.0 ms and one
\* above it.
C7_Witness ==
    /\ Len(warnings) = 1
    /\ pc = "done"
    /\ \E j \in 1..Len(recorded) : recorded[j] = WarnThreshold
    /\ \E j \in 1..Len(recorded) : recorded[j] > WarnThreshold

\* m_1 + ... + m_k, exactly.
RECURSIVE SumOfWindowAvgs(_)
SumOfWindowAvgs(k) ==
    IF k = 0 THEN 0 ELSE SumOfWindowAvgs(k - 1) + reports[k].avg

\* mean_{k-1}: the global mean before the k-th combine.
AvgBefore(k) == IF k = 1 THEN 0 ELSE reports[k - 1].global_avg

\* The float evaluation of ((k-1) * mean_{k-1} + m_k) / k.
RunningAvg(k) ==
    FDiv(FAdd(FMul(k - 1, AvgBefore(k)), reports[k].avg), k)

\* C8 as stated: after the k-th combine the global mean is
\* ((k-1) * mean_{k-1} + m_k) / k and, equivalently, the arithmetic mean
\* (m_1 + ... + m_k) / k of the window means.
C8_GlobalAvgIsArithmeticMean ==
    \A k \in 1..Len(reports) :
        /\ reports[k].global_avg = RunningAvg(k)
        /\ k * reports[k].global_avg = SumOfWindowAvgs(k)

\* C8 as amended: after the k-th combine the global mean is the float
\* evaluation (each operation rounded) of ((k-1) * mean_{k-1} + m_k) / k,
\* where k, the window count i / N used at that closure, is the number of
\* combines so far and mean_0 = 0; for k = 1 that is m_1 itself.
C8_GlobalAvgIsRunningAvg ==
    /\ \A k \in 1..Len(reports) :
          /\ reports[k].num_logs_so_far = k
          /\ reports[k].prev_avg = AvgBefore(k)
          /\ reports[k].global_avg = RunningAvg(k)
          /\ k = 1 => reports[k].global_avg = reports[k].avg
    /\ global_avg = StatsAfterLastReport[3]

\* Two combines whose result is not the exact mean of the two window means.
C8_Witness ==
    /\ Len(reports) = 2
    /\ reports[1].avg # reports[2].avg
    /\ reports[2].global_avg = RunningAvg(2)
    /\ 2 * reports[2].global_avg # reports[1].avg + reports[2].avg

\* C9: from one combine to the next the global max never decreases and the
\* global min never increases, and after every combine the global max is
\* >= the max, and the global min <= the min, of every window reported so
\* far.
C9_GlobalExtremaMonotone ==
    /\ \A k \in 1..Len(reports) :
          /\ reports[k].global_max >=
                (IF k = 1 THEN GlobalMaxInit ELSE reports[k - 1].global_max)
          /\ reports[k].global_min <=
                (IF k = 1 THEN GlobalMinInit ELSE reports[k - 1].global_min)
          /\ \A j \in 1..k :
                /\ reports[k].global_max >= reports[j].max
                /\ reports[k].global_min <= reports[j].min
    /\ global_max = StatsAfterLastReport[1]
    /\ global_min = StatsAfterLastReport[2]

\* A second window with a smaller max and a larger min than the first left
\* the global extrema where the first window put them.
C9_Witness ==
    /\ Len(reports) = 2
    /\ reports[2].max < reports[1].max
    /\ reports[2].min > reports[1].min
    /\ global_max = reports[1].max
    /\ global_min = reports[1].min

\* C10: the combiner runs once per closed window, in closure order: the
\* k-th combine is the one of iteration k * N and the window count it uses,
\* i / N, is k.
C10_OneCombinePerWindowInOrder ==
    \A k \in 1..Len(reports) :
        /\ reports[k].i = k * log_iters
        /\ reports[k].num_logs_so_far = k
        /\ reports[k].i \div log_iters = k

\* Two closures, at iterations N and 2N, used the window counts 1 and 2.
C10_Witness ==
    /\ Len(reports) = 2
    /\ reports[1].i = log_iters /\ reports[1].num_logs_so_far = 1
    /\ reports[2].i = 2 * log_iters /\ reports[2].num_logs_so_far = 2
    /\ pc = "sleep"

\* C11: every window line has max >= mean >= min: the three are statistics
\* of the same N samples (N * min <= sum <= N * max).
C11_WindowMeanBetweenExtrema ==
    \A k \in 1..Len(reports) :
        /\ reports[k].max >= reports[k].avg
        /\ reports[k].avg >= reports[k].min

\* Rounds a run of n requested iterations executes.
Rounds(n) == IF n > 0 THEN n ELSE 0

\* C12 (state part): a run that ends cleanly has executed exactly
\* num_requests rounds (none when num_requests <= 0), one ControlUpdate and
\* one recorded sample per round, all of them successful.
C12_CleanExitCounts ==
    pc = "done" =>
        /\ i = Rounds(num_requests)
        /\ update_calls = Rounds(num_requests)
        /\ Len(recorded) = Rounds(num_requests)
        /\ failed_at = -1
        /\ abort_cause = "none"

\* C12 (state part): the run aborts only on a start-up failure, a missing
\* named object or a ControlUpdate that returned non-success.
C12_AbortOnlyOnFailure ==
    pc = "aborted" =>
        \/ abort_cause \in {"metadata_file", "metadata_parse", "init_rpc",
                            "shm_open", "null_dereference"}
        \/ abort_cause = "control_update" /\ failed_at = i

\* C12: every run eventually terminates; unless start-up or a ControlUpdate
\* failed it terminates cleanly, after exactly num_requests rounds with one
\* ControlUpdate and one sample per round (at once, with no round, when
\* num_requests <= 0).
C12_RunTerminatesAfterAllRounds ==
    /\ []C12_CleanExitCounts
    /\ []C12_AbortOnlyOnFailure
    /\ <>(pc \in {"done", "aborted"})

\* A clean exit after LiveRequests rounds, one window reported.
C12_Witness ==
    /\ pc = "done"
    /\ num_requests = LiveRequests
    /\ update_calls = LiveRequests
    /\ Len(recorded) = LiveRequests
    /\ Len(reports) = 1

\* The constructor is past start-up: in the loop or cleanly out of it.
InLoop == pc \in {"loop_test", "send_command", "measure", "record", "warn",
                  "window", "sleep", "done"}

\* C13: InitRobotClient is issued at most once, and only when the metadata
\* file was read and parsed; the loop is entered only after that round trip
\* succeeded; and when the metadata load, the parse or the initialization
\* round trip fails the run is aborted with no ControlUpdate issued, no
\* sample recorded and no window reported.
C13_StartupAllOrNothing ==
    /\ init_calls <= 1
    /\ init_calls = 1 => metadata_file = "valid"
    /\ pc \in {"open_file", "parse_metadata", "init_client"} => init_calls = 0
    /\ (InLoop \/ update_calls > 0) =>
          /\ init_calls = 1
          /\ abort_cause \notin {"metadata_file", "metadata_parse", "init_rpc"}
    /\ metadata_file # "valid" =>
          /\ init_calls = 0
          /\ pc \in {"open_file", "parse_metadata", "aborted"}
    /\ abort_cause \in {"metadata_file", "metadata_parse", "init_rpc"} =>
          /\ pc = "aborted"
          /\ update_calls = 0
          /\ recorded = <<>>
          /\ reports = <<>>
          /\ i = 0

\* The initialization round trip was issued once, failed, and the run died
\* before its first iteration.
C13_Witness ==
    /\ abort_cause = "init_rpc"
    /\ pc = "aborted"
    /\ init_calls = 1
    /\ update_calls = 0
    /\ num_requests = MaxRequests

\* C14: the write index i mod N is in [0, N), the buffer never holds more
\* than N entries, and once the sample of iteration j is recorded it holds
\* exactly min(j + 1, N) entries.
C14_BufferBounded ==
    /\ SlotOf(i) \in 0..(log_iters - 1)
    /\ Len(times_taken) <= log_iters
    /\ Len(times_taken) = Min(Len(recorded), log_iters)
    /\ pc \in {"warn", "window", "sleep"} =>
          Len(times_taken) = Min(i + 1, log_iters)

\* The buffer is full and has wrapped twice: 2N + 1 samples, N entries.
C14_Witness ==
    /\ Len(recorded) = 2 * log_iters + 1
    /\ Len(times_taken) = log_iters
    /\ pc = "warn"

\* C15: the record step of iteration i stores the sample in slot i mod N,
\* a new slot while i < N and otherwise the slot that held the sample of
\* iteration i - N, and changes no other slot.
C15_RecordStep ==
    pc = "record" =>
        LET s == (i % log_iters) + 1
        IN  /\ s \in 1..Len(times_taken')
            /\ times_taken'[s] = ms_taken
            /\ i < log_iters =>
                  /\ Len(times_taken') = Len(times_taken) + 1
                  /\ s = Len(times_taken) + 1
            /\ i >= log_iters =>
                  /\ Len(times_taken') = Len(times_taken)
                  /\ slot_iter[s] = i - log_iters
                  /\ \A j \in 1..Len(slot_iter) : slot_iter[j] >= slot_iter[s]
            /\ \A j \in 1..Len(times_taken) :
                  j # s => times_taken'[j] = times_taken[j]

\* C15: every record step writes slot i mod N only, appending before the
\* first wrap and overwriting the oldest entry after it.
C15_RecordWritesOneSlot == [][C15_RecordStep]_vars

\* After the wrap the sample of iteration N + 1 replaced the one of
\* iteration 1, with a different value, next to untouched neighbours.
C15_Witness ==
    /\ pc = "warn"
    /\ i = log_iters + 1
    /\ times_taken[2] = ms_taken
    /\ recorded[2] # ms_taken
    /\ times_taken[1] = recorded[log_iters + 1]
    /\ times_taken[log_iters] = recorded[log_iters]

\* C16 (pacing step): the sleep at the end of a round returns at the
\* deadline start + period, or without blocking when the round has already
\* taken the period or longer.
C16_SleepStep ==
    pc = "sleep" =>
        /\ now' >= start + Period
        /\ now < start + Period => now' = start + Period
        /\ now >= start + Period => now' = now

\* C16 (next round): a round starts at the time the previous sleep returned,
\* never earlier than the previous round's start plus the period.
C16_NextRoundStep ==
    (pc = "loop_test" /\ pc' = "send_command") =>
        /\ start' = now
        /\ i > 0 => start' >= start + Period

\* C16: pacing is relative to each round's own start: round i + 1 starts at
\* start_i + period, or at once when round i took longer than the period.
C16_PacedFromRoundStart ==
    /\ [][C16_SleepStep]_vars
    /\ [][C16_NextRoundStep]_vars

\* Round 0 took 0.1 ms and round 1 started at the deadline, 1 ms; round 1
\* took 1.5 ms and round 2 started at once, at 2.5 ms.
C16_Witness ==
    /\ pc = "send_command"
    /\ i = 2
    /\ recorded = <<2, 30>>
    /\ start = Period + 30

\* C17: the RobotState handed to ControlUpdate is the payload SendCommand
\* refreshed in the same iteration: it carries that iteration's timestamp
\* and num_dofs zeros in each of the four vector fields.
C17_SentPayloadIsRefreshed ==
    (pc = "measure" /\ update_calls > 0) =>
        /\ sent.timestamp = copies["shm_timestamp"]
        /\ sent.joint_positions = [j \in 1..num_dofs |-> 0]
        /\ sent.joint_velocities = [j \in 1..num_dofs |-> 0]
        /\ sent.joint_torques_measured = [j \in 1..num_dofs |-> 0]
        /\ sent.joint_torques_external = [j \in 1..num_dofs |-> 0]

\* C18: the global statistics change only in the window step of an
\* iteration i > 0 with i mod N = 0; every other step of every iteration
\* (record, warning, pacing, ...) leaves max, min and mean as they were.
C18_StatsStep ==
    (<<global_max, global_min, global_avg>>' # <<global_max, global_min, global_avg>>)
        => /\ pc = "window"
           /\ i > 0
           /\ i % log_iters = 0
           /\ Len(reports') = Len(reports) + 1

C18_StatsChangeOnlyAtClosure == [][C18_StatsStep]_vars

\* Iteration N + 1, no boundary, has run through its window step and the
\* statistics are still those the closure of iteration N reported.
C18_Witness ==
    /\ pc = "sleep"
    /\ i = log_iters + 1
    /\ Len(reports) = 1
    /\ global_max = reports[1].global_max
    /\ global_max # GlobalMaxInit
    /\ ms_taken > global_max

\* C19: after every combine the global max is the largest window max and
\* the global min the smallest window min reported so far; the initial
\* values -99999 and 99999 are never reported as a global extremum.
C19_GlobalExtremaAreWindowExtrema ==
    \A k \in 1..Len(reports) :
        /\ reports[k].global_max = MaxElement([j \in 1..k |-> reports[j].max])
        /\ reports[k].global_min = MinElement([j \in 1..k |-> reports[j].min])
        /\ reports[k].global_max # GlobalMaxInit
        /\ reports[k].global_min # GlobalMinInit

====
